---------------------------- MODULE Spec2Model ----------------------------
(***************************************************************************)
(* A model of bender's command line session (src/src/sess.rs): the         *)
(* dependency table, the name table built from a lock file, the path       *)
(* interner, and the futures that acquire a git database and list its      *)
(* versions.                                                               *)
(*                                                                         *)
(* Strings that the code parses (version strings) are sequences of         *)
(* one-character strings; a PathBuf is the sequence of its components as   *)
(* written; Option<T> is a sequence of length 0 (None) or 1 (Some).        *)
(***************************************************************************)
EXTENDS Naturals, Sequences, FiniteSets, TLC

VARIABLES
    list,      \* DependencyTable.list: Vec<Arc<DependencyEntry>>
    ids,       \* DependencyTable.ids: HashMap<Arc<DependencyEntry>, DependencyRef>
    names,     \* Session.names: HashMap<String, DependencyRef>
    arena,     \* SessionArenas.path: the PathBufs allocated so far
    paths,     \* Session.paths: HashSet<&PathBuf>, as indices into arena
    owner,     \* the task holding each of the three Mutexes, or NoTask
    pc,        \* where each task stands in the call it is making
    loc,       \* the arguments and local variables of that call
    aborted,   \* a panic has unwound the thread the session runs on
    ncalls,    \* the number of calls started
    obs,       \* the last read: <<accessor, argument, value returned, number of the call>>
    addlog,    \* history: the add calls made directly on the table
    first,     \* history: (reference, descriptor) at the reference's first return
    hist,      \* history: the calls that locked the table, in the order they did:
               \* [t, c: number of the call, op, entries: the descriptors it has
               \* passed to add, ids: the references add returned]
    loads,     \* history: the lock files whose load_locked has completed, in order
    interns,   \* history: (path, handle) of every completed intern_path
    disk,      \* the file system: for each mirror directory, whether it exists
               \* and whether it holds git's config file
    fut,       \* the futures dependency_versions and checkout have returned
    root,      \* Session.root: the path of the package the tool runs in
    lsrefs,    \* what git.list_refs() has resolved to: Vec<(hash, ref name)>
    lsrevs,    \* what git.list_revs() has resolved to: Vec<hash>
    gitv       \* the GitVersions the closure of git_versions has built, if any

sessVars  == <<list, ids, names, arena, paths>>
taskVars  == <<owner, pc, loc, aborted, ncalls, obs>>
histVars  == <<addlog, first, hist, loads, interns>>
ioVars    == <<disk, fut>>
envVars   == <<root, lsrefs, lsrevs, gitv>>
vars      == <<list, ids, names, arena, paths, owner, pc, loc, aborted, ncalls, obs,
               addlog, first, hist, loads, interns, disk, fut, root, lsrefs, lsrevs, gitv>>

---------------------------------------------------------------------------
(* Bounds of the model. *)

\* The number of DependencyTable.add calls in one run of SpecTable.
MaxAdds == 3

---------------------------------------------------------------------------
(* Option<T> *)

None == <<>>
Some(x) == <<x>>
IsSome(o) == Len(o) = 1
Unwrap(o) == o[1]

---------------------------------------------------------------------------
(* std::path::PathBuf.  Equality and hashing of paths go by components():  *)
(* a "." component that is not the first one is skipped, so "p/./q" and    *)
(* "p/q" are equal paths with different spellings.                         *)

RECURSIVE DropCurDir(_)
DropCurDir(p) ==
    IF p = <<>> THEN <<>>
    ELSE IF Head(p) = "." THEN DropCurDir(Tail(p))
    ELSE <<Head(p)>> \o DropCurDir(Tail(p))

Components(p) == IF p = <<>> THEN <<>> ELSE <<Head(p)>> \o DropCurDir(Tail(p))

PathEq(p, q) == Components(p) = Components(q)

---------------------------------------------------------------------------
(* semver::Version::parse on the numeric core MAJOR.MINOR.PATCH: three     *)
(* dot-separated numbers, each a nonempty run of digits without a leading  *)
(* zero.  The result is Some(<<major, minor, patch>>) or None (Err).       *)

DigitChars == {"0", "1", "2", "3", "4", "5", "6", "7", "8", "9"}

DigitVal(c) ==
    CASE c = "0" -> 0 [] c = "1" -> 1 [] c = "2" -> 2 [] c = "3" -> 3
      [] c = "4" -> 4 [] c = "5" -> 5 [] c = "6" -> 6 [] c = "7" -> 7
      [] c = "8" -> 8 [] c = "9" -> 9

\* The text before the first "." of s, and the text after it.
RECURSIVE UpToDot(_)
UpToDot(s) ==
    IF s = <<>> \/ Head(s) = "." THEN <<>>
    ELSE <<Head(s)>> \o UpToDot(Tail(s))

RECURSIVE SplitDots(_)
SplitDots(s) ==
    LET part == UpToDot(s)
    IN  IF Len(part) = Len(s) THEN <<part>>
        ELSE <<part>> \o SplitDots(SubSeq(s, Len(part) + 2, Len(s)))

RECURSIVE NumVal(_)
NumVal(s) ==
    IF s = <<>> THEN 0
    ELSE 10 * NumVal(SubSeq(s, 1, Len(s) - 1)) + DigitVal(s[Len(s)])

IsNumeric(s) ==
    /\ s # <<>>
    /\ \A i \in 1..Len(s) : s[i] \in DigitChars
    /\ (Len(s) > 1 => s[1] # "0")

ParseVersion(s) ==
    LET parts == SplitDots(s)
    IN  IF Len(parts) = 3 /\ \A i \in 1..3 : IsNumeric(parts[i])
        THEN Some(<<NumVal(parts[1]), NumVal(parts[2]), NumVal(parts[3])>>)
        ELSE None

---------------------------------------------------------------------------
(* DependencySource and DependencyEntry.  A source is [kind, arg]: arg is  *)
(* the path of a Path source, <<url>> for a Git source, <<>> for Registry. *)

Registry == [kind |-> "Registry", arg |-> <<>>]
PathSource(p) == [kind |-> "Path", arg |-> p]
GitSource(url) == [kind |-> "Git", arg |-> <<url>>]

\* #[derive(PartialEq)] on DependencySource; PathBuf compares by components.
SourceEq(s, t) ==
    /\ s.kind = t.kind
    /\ IF s.kind = "Path" THEN PathEq(s.arg, t.arg) ELSE s.arg = t.arg

DependencyEntry(name, source, revision, version) ==
    [name |-> name, source |-> source, revision |-> revision, version |-> version]

\* #[derive(PartialEq, Eq, Hash)] on DependencyEntry: all four fields.
EntryEq(e, f) ==
    /\ e.name = f.name
    /\ SourceEq(e.source, f.source)
    /\ e.revision = f.revision
    /\ e.version = f.version

---------------------------------------------------------------------------
(* DependencyTable.  A DependencyRef is the index it wraps (from 0);       *)
(* ids is the set of the map's (key, id) pairs.                            *)

\* A slip: the lookup compares the name and the source only.
IdsGetByNameAndSource(idmap, entry) ==
    LET hit == {x \in idmap : x.key.name = entry.name /\ SourceEq(x.key.source, entry.source)}
    IN  IF hit = {} THEN None ELSE Some((CHOOSE x \in hit : TRUE).id)

\* self.ids.get(&entry)
IdsGet(idmap, entry) ==
    LET hit == {x \in idmap : EntryEq(x.key, entry)}
    IN  IF hit = {} THEN None ELSE Some((CHOOSE x \in hit : TRUE).id)

\* A slip: the new entry is put in front of the list.
TablePushFront(table, entry) ==
    LET id == Len(table.list)
    IN  [table |-> [list |-> <<entry>> \o table.list,
                    ids  |-> table.ids \cup {[key |-> entry, id |-> id]}],
         id    |-> id]

\* The else branch of add: a new reference, the push and the insert.
TablePush(table, entry) ==
    LET id == Len(table.list)
    IN  [table |-> [list |-> Append(table.list, entry),
                    ids  |-> table.ids \cup {[key |-> entry, id |-> id]}],
         id    |-> id]

\* DependencyTable::add: the table after the call and the reference returned.
TableAdd(table, entry) ==
    LET found == IdsGet(table.ids, entry)
    IN  IF IsSome(found) THEN [table |-> table, id |-> Unwrap(found)]
        ELSE TablePush(table, entry)

\* DependencyTable::new
NewTable == [list |-> <<>>, ids |-> {}]

---------------------------------------------------------------------------
(* The inputs. *)

DepNames == {"a", "b"}
Urls == {"u1", "u2"}
\* Two spellings of one path, and two other paths.
PathBufs == {<<"p", "q">>, <<"p", ".", "q">>, <<"r">>, <<"r", "q">>}
Revisions == {"r1", "r2"}
\* "1.0.0", "2.0.0" and "1.0", which is no semantic version.
VersionStrings == {<<"1", ".", "0", ".", "0">>, <<"2", ".", "0", ".", "0">>, <<"1", ".", "0">>}

\* The descriptors the add calls of SpecTable draw from: descriptors that
\* differ in the name only, in the source only (kind, url, path), in the
\* revision only and in the version only, and two spellings of one path.
TableEntries ==
    {DependencyEntry(n, s, r, v) :
        n \in DepNames,
        s \in {Registry, GitSource("u1"), PathSource(<<"p", "q">>), PathSource(<<"p", ".", "q">>)},
        r \in {None, Some("r1")},
        v \in {None, ParseVersion(<<"1", ".", "0", ".", "0">>)}}

---------------------------------------------------------------------------
(* SpecTable: a DependencyTable on its own, under a sequence of add calls. *)

Tasks == {"t1", "t2"}
NoTask == "none"
Locks == {"deps", "names", "paths"}

---------------------------------------------------------------------------
(* SessionIo: the data of git_database and dependency_versions.            *)

\* The futures (calls of dependency_versions) of one run.
Futs == {"f1", "f2"}

\* The first 16 hex characters of the BLAKE2 digest of the URL.  The digest
\* itself is not computed: the URLs of the model have different digests.
UrlDigest16(url) == CASE url = "u1" -> "6d1c0a3e5b7f9d20" [] url = "u2" -> "e4b8a1c27f3d5a96"

\* A slip: the database is named after the dependency alone.
DbNameWithoutHash(name, url) == <<name>>

\* format!("{}-{}", name, hash)
DbName(name, url) == <<name, "-", UrlDigest16(url)>>

\* config.database.join("git").join("db").join(db_name)
DbDir(name, url) == <<"database", "git", "db", DbName(name, url)>>

\* The (name, url) of the Git dependencies that the runs of SpecIo load, and
\* their mirror directories.
GitDeps == {<<"a", "u1">>, <<"a", "u2">>}
MirrorDirs == {DbDir(g[1], g[2]) : g \in GitDeps}

\* No failure, the failure of a step, and Error::chain(msg, cause).
NoError == [chain |-> FALSE, msg |-> "", dir |-> 0, what |-> ""]
Failure(what) == [chain |-> FALSE, msg |-> "", dir |-> 0, what |-> what]
ErrorChain(msg, dir, cause) == [chain |-> TRUE, msg |-> msg, dir |-> dir, what |-> cause.what]

ResultOk(val) == [ok |-> TRUE, val |-> val, err |-> NoError]
ResultErr(err) == [ok |-> FALSE, val |-> "", err |-> err]

\* A future nobody has asked for yet.
IdleFut ==
    [st |-> "idle", dep |-> 0, dir |-> 0, mode |-> "", step |-> "none", running |-> FALSE,
     refs |-> "none", revs |-> "none", result |-> ResultErr(NoError), ev |-> <<>>]

InitIo ==
    /\ disk = [d \in MirrorDirs |-> [exists |-> FALSE, config |-> FALSE]]
    /\ fut = [f \in Futs |-> IdleFut]

\* The package root of the runs that make no checkout, and the listings
\* and the result of git_versions before any listing has resolved.
SessionRoot == <<"/", "w", "x">>

InitEnv ==
    /\ root = SessionRoot
    /\ lsrefs = <<>>
    /\ lsrevs = <<>>
    /\ gitv = None

InitSession ==
    /\ list = <<>>
    /\ ids = {}
    /\ names = <<>>
    /\ arena = <<>>
    /\ paths = {}

InitTasks ==
    /\ owner = [l \in Locks |-> NoTask]
    /\ pc = [t \in Tasks |-> "idle"]
    /\ loc = [t \in Tasks |-> <<>>]
    /\ aborted = FALSE
    /\ ncalls = 0
    /\ obs = <<>>

InitHist ==
    /\ addlog = <<>>
    /\ first = {}
    /\ hist = <<>>
    /\ loads = <<>>
    /\ interns = {}

InitTable == InitSession /\ InitTasks /\ InitHist /\ InitIo /\ InitEnv

\* One call table.add(entry); the history keeps the argument, the reference
\* returned and the length of the list before and after the call.
AddCall(entry) ==
    /\ Len(addlog) < MaxAdds
    /\ LET r == TableAdd([list |-> list, ids |-> ids], entry)
       IN  /\ list' = r.table.list
           /\ ids' = r.table.ids
           /\ addlog' = Append(addlog, [entry |-> entry, id |-> r.id,
                                        before |-> Len(list), after |-> Len(r.table.list)])
    /\ UNCHANGED <<names, arena, paths, taskVars, first, hist, loads, interns, ioVars, envVars>>

NextTable == \E e \in TableEntries : AddCall(e)

SpecTable == InitTable /\ [][NextTable]_vars

---------------------------------------------------------------------------
(* C1: DependencyTable.add is idempotent under structural equality: in any *)
(* sequence of add calls, a call whose descriptor equals (in all four      *)
(* fields) the descriptor of an earlier call returns that call's reference *)
(* and leaves the list's length unchanged; a call whose descriptor differs *)
(* from every earlier one returns a reference no earlier call returned and *)
(* grows the list by exactly one.                                          *)
C1_AddIdempotent ==
    \A i \in 1..Len(addlog) :
        LET c == addlog[i]
            same == {j \in 1..(i-1) : EntryEq(addlog[j].entry, c.entry)}
        IN  IF same # {}
            THEN /\ \A j \in same : addlog[j].id = c.id
                 /\ c.after = c.before
            ELSE /\ \A j \in 1..(i-1) : addlog[j].id # c.id
                 /\ c.after = c.before + 1

\* A repeated descriptor (here spelt differently: the same path as p/q and
\* p/./q) and a descriptor that differs from it in one field have been added.
C1_Witness ==
    /\ Len(addlog) = 3
    /\ addlog[1].entry # addlog[2].entry
    /\ EntryEq(addlog[1].entry, addlog[2].entry)
    /\ ~EntryEq(addlog[1].entry, addlog[3].entry)
    /\ addlog[1].entry.name = addlog[3].entry.name
    /\ addlog[1].entry.source = addlog[3].entry.source
    /\ addlog[1].entry.version = addlog[3].entry.version

---------------------------------------------------------------------------
(* Session: what the handlers compute. *)

\* config::Dependency, the declaration of a dependency in a manifest.
DeclVersion(req) == [kind |-> "Version", arg |-> <<>>, extra |-> req]
DeclPath(p) == [kind |-> "Path", arg |-> p, extra |-> ""]
DeclGitRevision(url, rev) == [kind |-> "GitRevision", arg |-> <<url>>, extra |-> rev]
DeclGitVersion(url, req) == [kind |-> "GitVersion", arg |-> <<url>>, extra |-> req]

\* A slip: a git dependency declared by version is taken for a registry one.
SourceOfDeclarationByVersion(cfg) ==
    CASE cfg.kind \in {"Version", "GitVersion"} -> Registry
      [] cfg.kind = "Path" -> PathSource(cfg.arg)
      [] cfg.kind = "GitRevision" -> GitSource(cfg.arg[1])

\* The match of load_dependency.
SourceOfDeclaration(cfg) ==
    CASE cfg.kind = "Version" -> Registry
      [] cfg.kind = "Path" -> PathSource(cfg.arg)
      [] cfg.kind \in {"GitRevision", "GitVersion"} -> GitSource(cfg.arg[1])

\* The descriptor load_dependency adds.
DeclaredEntry(name, cfg) ==
    DependencyEntry(name, SourceOfDeclaration(cfg), None, None)

\* config::LockedSource and config::LockedPackage, an entry of a lock file.
LockedPath(p) == [kind |-> "Path", arg |-> p]
LockedGit(url) == [kind |-> "Git", arg |-> <<url>>]
LockedRegistry(ver) == [kind |-> "Registry", arg |-> ver]
LockedPackage(source, revision, version) ==
    [source |-> source, revision |-> revision, version |-> version]

\* The match of load_locked.
SourceOfLocked(src) ==
    CASE src.kind = "Path" -> PathSource(src.arg)
      [] src.kind = "Git" -> GitSource(src.arg[1])
      [] src.kind = "Registry" -> Registry

\* pkg.version.as_ref().map(|s| semver::Version::parse(&s).unwrap()) panics
\* on a version string that does not parse.
LockedVersionPanics(pkg) ==
    IsSome(pkg.version) /\ ~IsSome(ParseVersion(Unwrap(pkg.version)))

LockedVersion(pkg) ==
    IF IsSome(pkg.version) THEN ParseVersion(Unwrap(pkg.version)) ELSE None

\* A slip: the descriptor of a locked package without its pinned revision.
LockedEntryUnpinned(name, pkg) ==
    DependencyEntry(name, SourceOfLocked(pkg.source), None, LockedVersion(pkg))

\* The descriptor load_locked adds for a package.
LockedEntry(name, pkg) ==
    DependencyEntry(name, SourceOfLocked(pkg.source), pkg.revision, LockedVersion(pkg))

\* A slip: the name is recorded with the reference after the one add returned.
NamesInsertNext(table, name, id) == (name :> id + 1) @@ table

\* names.insert(name, id) on the local table of load_locked.
NamesInsert(table, name, id) == (name :> id) @@ table

\* A slip: the new table is merged into the old one.
NamesMerged(old, new) == new @@ old

\* *self.names.lock().unwrap() = names
NamesAssigned(old, new) == new

\* Session::dependency: list[dep.0], or None where the index panics.
Dependency(r) == IF r < Len(list) THEN Some(list[r + 1]) ELSE None

\* Session::dependency_source
DependencySource(r) == IF r < Len(list) THEN Some(list[r + 1].source) ELSE None

\* Session::dependency_with_name: Ok(id), or the error that carries the name.
DependencyWithName(n) ==
    IF n \in DOMAIN names THEN [ok |-> TRUE, val |-> Some(names[n]), err |-> None]
    ELSE [ok |-> FALSE, val |-> None, err |-> Some(n)]

\* A slip: the set never finds a stored path.
PathsGetNothing(buf) == None

\* self.paths.get(&buf): the handle of the stored path equal to buf.
PathsGet(buf) ==
    LET hit == {h \in paths : PathEq(arena[h], buf)}
    IN  IF hit = {} THEN None ELSE Some(CHOOSE h \in hit : TRUE)

---------------------------------------------------------------------------
(* The inputs of the session's calls. *)

\* The number of calls made on the session in one run of Spec.
MaxCalls == 3

\* (name, declaration) pairs: a git dependency declared by revision and by
\* version (one descriptor), a path dependency, a registry dependency.
LoadInputs ==
    { <<"a", DeclGitRevision("u1", "r1")>>,
      <<"a", DeclGitVersion("u1", "^1")>>,
      <<"a", DeclPath(<<"p", "q">>)>>,
      <<"b", DeclVersion("^1")>> }

\* Lock files: package name -> locked package.
LockA == "a" :> LockedPackage(LockedGit("u1"), Some("r1"), Some(<<"1", ".", "0", ".", "0">>))
LockAB == ("a" :> LockedPackage(LockedGit("u1"), Some("r1"), Some(<<"1", ".", "0", ".", "0">>)))
          @@ ("b" :> LockedPackage(LockedPath(<<"p", ".", "q">>), None, None))
LockB == "b" :> LockedPackage(LockedRegistry(<<"2", ".", "0", ".", "0">>), None, Some(<<"2", ".", "0", ".", "0">>))
\* A lock file whose version string is "1.0".
LockBad == "b" :> LockedPackage(LockedGit("u1"), None, Some(<<"1", ".", "0">>))
LockFiles == {LockA, LockAB, LockB, LockBad}

---------------------------------------------------------------------------
(* Spec: the session's calls made by several tasks.  A call is one step    *)
(* per stretch between two lock operations; a panic ends the run (the      *)
(* session is used from the one thread that the panic unwinds).            *)

\* A slip: the Mutex does not exclude.
LockFreeAlways(l) == TRUE

\* Mutex::lock returns when no other task holds the guard.
LockFree(l) == owner[l] = NoTask

Remember(f, id, entry) ==
    IF \E p \in f : p[1] = id THEN f ELSE f \cup {<<id, entry>>}

\* load_dependency up to self.ids.get(&entry) inside add: the source is
\* classified, the table is locked and the descriptor is looked up.
LD_Lock(t, name, cfg) ==
    /\ ~aborted
    /\ pc[t] = "idle"
    /\ ncalls < MaxCalls
    /\ LockFree("deps")
    /\ owner' = [owner EXCEPT !["deps"] = t]
    /\ LET entry == DeclaredEntry(name, cfg)
       IN  /\ loc' = [loc EXCEPT ![t] = [entry |-> entry, found |-> IdsGet(ids, entry),
                                         h |-> Len(hist) + 1]]
           /\ hist' = Append(hist, [t |-> t, c |-> ncalls + 1, op |-> "load_dependency",
                                   entries |-> <<entry>>, ids |-> <<>>])
    /\ pc' = [pc EXCEPT ![t] = "ld_add"]
    /\ ncalls' = ncalls + 1
    /\ UNCHANGED <<sessVars, aborted, obs, addlog, first, loads, interns, ioVars, envVars>>

\* The rest of load_dependency: the branch of add, the guard dropped, the
\* reference returned.
LD_Add(t) ==
    /\ ~aborted
    /\ pc[t] = "ld_add"
    /\ LET r == IF IsSome(loc[t].found)
                THEN [table |-> [list |-> list, ids |-> ids], id |-> Unwrap(loc[t].found)]
                ELSE TablePush([list |-> list, ids |-> ids], loc[t].entry)
       IN  /\ list' = r.table.list
           /\ ids' = r.table.ids
           /\ hist' = [hist EXCEPT ![loc[t].h].ids = Append(@, r.id)]
           /\ first' = Remember(first, r.id, loc[t].entry)
    /\ owner' = [owner EXCEPT !["deps"] = NoTask]
    /\ pc' = [pc EXCEPT ![t] = "idle"]
    /\ loc' = [loc EXCEPT ![t] = <<>>]
    /\ UNCHANGED <<names, arena, paths, aborted, ncalls, obs, addlog, loads, interns, ioVars, envVars>>

\* load_locked up to the loop: the table is locked, the local name table is
\* empty.
LL_Lock(t, locked) ==
    /\ ~aborted
    /\ pc[t] = "idle"
    /\ ncalls < MaxCalls
    /\ LockFree("deps")
    /\ owner' = [owner EXCEPT !["deps"] = t]
    /\ loc' = [loc EXCEPT ![t] = [locked |-> locked, todo |-> DOMAIN locked,
                                  lnames |-> <<>>, h |-> Len(hist) + 1]]
    /\ hist' = Append(hist, [t |-> t, c |-> ncalls + 1, op |-> "load_locked",
                           entries |-> <<>>, ids |-> <<>>])
    /\ pc' = [pc EXCEPT ![t] = "ll_loop"]
    /\ ncalls' = ncalls + 1
    /\ UNCHANGED <<sessVars, aborted, obs, addlog, first, loads, interns, ioVars, envVars>>

\* A slip: the loop inserts into the session's name table as it goes.
LL_IterShared(t) ==
    /\ ~aborted
    /\ pc[t] = "ll_loop"
    /\ \E n \in loc[t].todo :
        LET pkg == loc[t].locked[n]
            entry == LockedEntry(n, pkg)
            r == TableAdd([list |-> list, ids |-> ids], entry)
        IN  /\ ~LockedVersionPanics(pkg)
            /\ list' = r.table.list
            /\ ids' = r.table.ids
            /\ names' = NamesInsert(names, n, r.id)
            /\ loc' = [loc EXCEPT ![t].todo = @ \ {n},
                                  ![t].lnames = NamesInsert(@, n, r.id)]
            /\ hist' = [hist EXCEPT ![loc[t].h].entries = Append(@, entry),
                                    ![loc[t].h].ids = Append(@, r.id)]
            /\ first' = Remember(first, r.id, entry)
    /\ UNCHANGED <<arena, paths, owner, pc, aborted, ncalls, obs, addlog, loads, interns, ioVars, envVars>>

\* One iteration of the loop of load_locked, for a package the iteration has
\* not yet reached: the descriptor is built (a version string that does not
\* parse panics, with the table locked), added, and recorded under the name.
LL_Iter(t) ==
    /\ ~aborted
    /\ pc[t] = "ll_loop"
    /\ \E n \in loc[t].todo :
        LET pkg == loc[t].locked[n]
        IN  IF LockedVersionPanics(pkg)
            THEN /\ aborted' = TRUE
                 /\ pc' = [pc EXCEPT ![t] = "panicked"]
                 /\ UNCHANGED <<sessVars, owner, loc, first, hist>>
            ELSE LET entry == LockedEntry(n, pkg)
                     r == TableAdd([list |-> list, ids |-> ids], entry)
                 IN  /\ list' = r.table.list
                     /\ ids' = r.table.ids
                     /\ loc' = [loc EXCEPT ![t].todo = @ \ {n},
                                           ![t].lnames = NamesInsert(@, n, r.id)]
                     /\ hist' = [hist EXCEPT ![loc[t].h].entries = Append(@, entry),
                                             ![loc[t].h].ids = Append(@, r.id)]
                     /\ first' = Remember(first, r.id, entry)
                     /\ UNCHANGED <<names, arena, paths, owner, pc, aborted>>
    /\ UNCHANGED <<ncalls, obs, addlog, loads, interns, ioVars, envVars>>

\* A slip: the guard of the table is not dropped before the name table is
\* locked.
LL_DropMissing(t) ==
    /\ ~aborted
    /\ pc[t] = "ll_loop"
    /\ loc[t].todo = {}
    /\ pc' = [pc EXCEPT ![t] = "ll_dropped"]
    /\ UNCHANGED <<sessVars, owner, loc, aborted, ncalls, obs, histVars, ioVars, envVars>>

\* drop(deps)
LL_Drop(t) ==
    /\ ~aborted
    /\ pc[t] = "ll_loop"
    /\ loc[t].todo = {}
    /\ owner' = [owner EXCEPT !["deps"] = NoTask]
    /\ pc' = [pc EXCEPT ![t] = "ll_dropped"]
    /\ UNCHANGED <<sessVars, loc, aborted, ncalls, obs, histVars, ioVars, envVars>>

\* self.names.lock().unwrap()
LL_LockNames(t) ==
    /\ ~aborted
    /\ pc[t] = "ll_dropped"
    /\ LockFree("names")
    /\ owner' = [owner EXCEPT !["names"] = t]
    /\ pc' = [pc EXCEPT ![t] = "ll_names"]
    /\ UNCHANGED <<sessVars, loc, aborted, ncalls, obs, histVars, ioVars, envVars>>

\* The assignment of the local table to the session's, and the return.
LL_Assign(t) ==
    /\ ~aborted
    /\ pc[t] = "ll_names"
    /\ names' = NamesAssigned(names, loc[t].lnames)
    /\ loads' = Append(loads, loc[t].locked)
    /\ owner' = [owner EXCEPT !["names"] = NoTask]
    /\ pc' = [pc EXCEPT ![t] = "idle"]
    /\ loc' = [loc EXCEPT ![t] = <<>>]
    /\ UNCHANGED <<list, ids, arena, paths, aborted, ncalls, obs, addlog, first, hist, interns, ioVars, envVars>>

\* The references a caller can hold: those an add has returned.
KnownRefs == {p[1] : p \in first}

\* Session::dependency, called with a reference the caller holds.
DependencyCall(t, r) ==
    /\ ~aborted
    /\ pc[t] = "idle"
    /\ ncalls < MaxCalls
    /\ ncalls' = ncalls + 1
    /\ LockFree("deps")
    /\ IF IsSome(Dependency(r))
       THEN /\ obs' = <<"dependency", r, Dependency(r), ncalls + 1>>
            /\ UNCHANGED <<pc, aborted>>
       ELSE /\ aborted' = TRUE
            /\ pc' = [pc EXCEPT ![t] = "panicked"]
            /\ UNCHANGED obs
    /\ UNCHANGED <<sessVars, owner, loc, histVars, ioVars, envVars>>

\* Session::dependency_source
DependencySourceCall(t, r) ==
    /\ ~aborted
    /\ pc[t] = "idle"
    /\ ncalls < MaxCalls
    /\ ncalls' = ncalls + 1
    /\ LockFree("deps")
    /\ IF IsSome(DependencySource(r))
       THEN /\ obs' = <<"dependency_source", r, DependencySource(r), ncalls + 1>>
            /\ UNCHANGED <<pc, aborted>>
       ELSE /\ aborted' = TRUE
            /\ pc' = [pc EXCEPT ![t] = "panicked"]
            /\ UNCHANGED obs
    /\ UNCHANGED <<sessVars, owner, loc, histVars, ioVars, envVars>>

\* Session::dependency_with_name
DependencyWithNameCall(t, n) ==
    /\ ~aborted
    /\ pc[t] = "idle"
    /\ ncalls < MaxCalls
    /\ ncalls' = ncalls + 1
    /\ LockFree("names")
    /\ obs' = <<"dependency_with_name", n, DependencyWithName(n), ncalls + 1>>
    /\ UNCHANGED <<sessVars, owner, pc, loc, aborted, histVars, ioVars, envVars>>

Init == InitSession /\ InitTasks /\ InitHist /\ InitIo /\ InitEnv

Next ==
    \E t \in Tasks :
        \/ \E in \in LoadInputs : LD_Lock(t, in[1], in[2])
        \/ LD_Add(t)
        \/ \E locked \in LockFiles : LL_Lock(t, locked)
        \/ LL_Iter(t)
        \/ LL_Drop(t)
        \/ LL_LockNames(t)
        \/ LL_Assign(t)
        \/ \E r \in KnownRefs : DependencyCall(t, r)
        \/ \E r \in KnownRefs : DependencySourceCall(t, r)
        \/ \E n \in DepNames : DependencyWithNameCall(t, n)

Spec == Init /\ [][Next]_vars

---------------------------------------------------------------------------
(* C2: after any sequence of load_dependency and load_locked calls, for    *)
(* every reference r ever returned, dependency(r) succeeds and returns the *)
(* descriptor whose insertion first produced r, and every call that got r  *)
(* passed a descriptor equal to it; no step removes or alters a stored     *)
(* entry, and the list never gets shorter.                                 *)
C2_Returned ==
    /\ \A p \in first : Dependency(p[1]) = Some(p[2])
    /\ \A i \in 1..Len(hist) : \A k \in 1..Len(hist[i].ids) :
          /\ IsSome(Dependency(hist[i].ids[k]))
          /\ EntryEq(Unwrap(Dependency(hist[i].ids[k])), hist[i].entries[k])

C2_Kept ==
    /\ Len(list') >= Len(list)
    /\ \A i \in 1..Len(list) : list'[i] = list[i]

C2_RefsStable == [](C2_Returned) /\ [][C2_Kept]_vars

\* A load_dependency and a load_locked have returned references, and
\* dependency has been called with the second reference of the session.
C2_Witness ==
    /\ obs # <<>>
    /\ obs[1] = "dependency"
    /\ obs[2] = 1
    /\ loads # <<>>
    /\ \E i \in 1..Len(hist) : hist[i].op = "load_dependency" /\ hist[i].c < obs[4]

---------------------------------------------------------------------------
\* The lock file of the last load_locked that has completed (none: empty).
LastLocked == IF loads = <<>> THEN <<>> ELSE loads[Len(loads)]

(* C3: once load_locked(L) has completed, and until the next one does, for *)
(* every package name n of L dependency_with_name(n) returns a reference r *)
(* such that dependency(r) has name n and the source kind, the pinned      *)
(* revision and the pinned version of L's entry for n; for every other     *)
(* name, and for every name before any load_locked has completed, it       *)
(* returns the not-found error carrying that name.                         *)
C3_NameRoundTrip ==
    \A n \in DepNames :
        LET res == DependencyWithName(n)
        IN  IF n \in DOMAIN LastLocked
            THEN /\ res.ok
                 /\ IsSome(Dependency(Unwrap(res.val)))
                 /\ LET d == Unwrap(Dependency(Unwrap(res.val)))
                        pkg == LastLocked[n]
                    IN  /\ d.name = n
                        /\ d.source.kind = pkg.source.kind
                        /\ d.revision = pkg.revision
                        /\ IsSome(d.version) = IsSome(pkg.version)
                        /\ IsSome(d.version) => Some(Unwrap(d.version)) = ParseVersion(Unwrap(pkg.version))
            ELSE res = [ok |-> FALSE, val |-> None, err |-> Some(n)]

\* After load_locked of the lock file with packages a and b, a name has been
\* resolved to a descriptor pinned to r1.
C3_Witness ==
    /\ loads = <<LockAB>>
    /\ obs # <<>>
    /\ obs[1] = "dependency_with_name"
    /\ obs[3].ok
    /\ Unwrap(Dependency(Unwrap(obs[3].val))).revision = Some("r1")

---------------------------------------------------------------------------
(* C4: load_locked replaces the name table: after load_locked(L1) and then *)
(* load_locked(L2) have completed, the names dependency_with_name resolves *)
(* are exactly the package names of L2; a name of L1 that L2 lacks gets    *)
(* the not-found error although its descriptor is still in the table.      *)
C4_ReplacesNames ==
    Len(loads) >= 2 =>
        LET L1 == loads[Len(loads) - 1]
            L2 == loads[Len(loads)]
        IN  /\ {n \in DepNames : DependencyWithName(n).ok} = DOMAIN L2
            /\ \A n \in DOMAIN L1 \ DOMAIN L2 :
                  /\ DependencyWithName(n) = [ok |-> FALSE, val |-> None, err |-> Some(n)]
                  /\ \E i \in 1..Len(list) :
                        /\ list[i].name = n
                        /\ list[i].revision = L1[n].revision
                        /\ list[i].source.kind = L1[n].source.kind

\* Two lock files have been loaded, the second without a name of the first.
C4_Witness ==
    /\ Len(loads) = 2
    /\ DOMAIN loads[1] \ DOMAIN loads[2] # {}

---------------------------------------------------------------------------
(* C5: load_locked is atomic for the readers of the name table: every      *)
(* change of the name table is one step that installs the complete table   *)
(* of the lock file L of one load_locked call, whose loop has ended: its   *)
(* names are exactly L's and each refers to the descriptor of L's package. *)
(* A dependency_with_name call, which reads the table in one step, sees    *)
(* the table before that step or after it.                                 *)
C5_Install ==
    names' # names =>
        \E t \in Tasks :
            /\ pc[t] = "ll_names"
            /\ pc'[t] = "idle"
            /\ loc[t].todo = {}
            /\ DOMAIN names' = DOMAIN loc[t].locked
            /\ \A n \in DOMAIN names' :
                  /\ names'[n] < Len(list)
                  /\ list[names'[n] + 1].name = n
                  /\ list[names'[n] + 1].revision = loc[t].locked[n].revision
                  /\ list[names'[n] + 1].source.kind = loc[t].locked[n].source.kind

C5_AtomicNames == [][C5_Install]_vars

\* A reader has called dependency_with_name while a load_locked was in its
\* loop with one of its two packages done, and got the not-found error.
C5_Witness ==
    \E t \in Tasks :
        /\ pc[t] = "ll_loop"
        /\ loc[t].todo # {}
        /\ DOMAIN loc[t].lnames # {}
        /\ obs # <<>>
        /\ obs[1] = "dependency_with_name"
        /\ obs[2] \in DOMAIN loc[t].lnames
        /\ ~obs[3].ok
        /\ obs[4] > hist[loc[t].h].c

---------------------------------------------------------------------------
(* C6: load_dependency and load_locked calls of several tasks interleave   *)
(* as if run one after the other in the order they locked the table: the   *)
(* table and the references returned are those of the sequential run of    *)
(* the same add calls in that order; calls with equal descriptors get the  *)
(* same reference and one entry, calls with different descriptors get      *)
(* different references.                                                   *)

\* What a call has added so far.
RECURSIVE AddedEntries(_)
AddedEntries(h) ==
    IF h = <<>> THEN <<>>
    ELSE SubSeq(Head(h).entries, 1, Len(Head(h).ids)) \o AddedEntries(Tail(h))

RECURSIVE AddedIds(_)
AddedIds(h) == IF h = <<>> THEN <<>> ELSE Head(h).ids \o AddedIds(Tail(h))

\* The sequential run of add over a sequence of descriptors.
RECURSIVE Replay(_, _)
Replay(acc, entries) ==
    IF entries = <<>> THEN acc
    ELSE LET r == TableAdd(acc.table, Head(entries))
         IN  Replay([table |-> r.table, ids |-> Append(acc.ids, r.id)], Tail(entries))

C6_Linearizable ==
    LET es == AddedEntries(hist)
        is == AddedIds(hist)
        seq == Replay([table |-> NewTable, ids |-> <<>>], es)
    IN  /\ seq.table.list = list
        /\ seq.table.ids = ids
        /\ seq.ids = is
        /\ \A i, j \in 1..Len(es) : EntryEq(es[i], es[j]) <=> is[i] = is[j]
        /\ Len(list) = Cardinality({is[i] : i \in 1..Len(is)})

\* The two tasks have each loaded the same descriptor and got one
\* reference; a load_locked, not yet at its name table, has added a
\* different descriptor and got another.
C6_Witness ==
    /\ Len(hist) = 3
    /\ hist[1].t # hist[2].t
    /\ hist[1].op = "load_dependency" /\ hist[2].op = "load_dependency"
    /\ hist[3].op = "load_locked"
    /\ pc[hist[3].t] = "ll_dropped"
    /\ hist[1].ids = <<0>> /\ hist[2].ids = <<0>> /\ hist[3].ids = <<1>>
    /\ Len(list) = 2

---------------------------------------------------------------------------
(* SpecIntern: intern_path called by several tasks.  A handle (&'ctx Path) *)
(* is the index of its allocation in the arena.                            *)

\* The number of intern_path calls in one run of SpecIntern.
MaxInterns == 4

\* intern_path up to paths.get(&buf): the set is locked and looked up.
IP_Lock(t, buf) ==
    /\ ~aborted
    /\ pc[t] = "idle"
    /\ ncalls < MaxInterns
    /\ LockFree("paths")
    /\ owner' = [owner EXCEPT !["paths"] = t]
    /\ loc' = [loc EXCEPT ![t] = [buf |-> buf, found |-> PathsGet(buf)]]
    /\ pc' = [pc EXCEPT ![t] = "ip_add"]
    /\ ncalls' = ncalls + 1
    /\ UNCHANGED <<sessVars, aborted, obs, histVars, ioVars, envVars>>

\* The rest of intern_path: the stored handle, or an allocation in the arena
\* and its insertion; the guard dropped, the handle returned.
IP_Finish(t) ==
    /\ ~aborted
    /\ pc[t] = "ip_add"
    /\ IF IsSome(loc[t].found)
       THEN /\ interns' = interns \cup {<<loc[t].buf, Unwrap(loc[t].found)>>}
            /\ UNCHANGED <<arena, paths>>
       ELSE /\ arena' = Append(arena, loc[t].buf)
            /\ paths' = paths \cup {Len(arena) + 1}
            /\ interns' = interns \cup {<<loc[t].buf, Len(arena) + 1>>}
    /\ owner' = [owner EXCEPT !["paths"] = NoTask]
    /\ pc' = [pc EXCEPT ![t] = "idle"]
    /\ loc' = [loc EXCEPT ![t] = <<>>]
    /\ UNCHANGED <<list, ids, names, aborted, ncalls, obs, addlog, first, hist, loads, ioVars, envVars>>

NextIntern ==
    \E t \in Tasks :
        \/ \E buf \in PathBufs : IP_Lock(t, buf)
        \/ IP_Finish(t)

SpecIntern == Init /\ [][NextIntern]_vars

(* C7: path interning is idempotent and injective: in every interleaving   *)
(* of intern_path calls, the handle returned stores a path equal to the    *)
(* one passed, two calls get the same handle exactly when their paths are  *)
(* equal, nothing is allocated for a path already interned, and the set    *)
(* holds exactly one entry per distinct path interned.                     *)
C7_InternOnce ==
    /\ \A p \in interns : p[2] \in paths /\ PathEq(arena[p[2]], p[1])
    /\ \A p, q \in interns : PathEq(p[1], q[1]) <=> p[2] = q[2]
    /\ Cardinality(paths) = Cardinality({Components(p[1]) : p \in interns})
    /\ Len(arena) = Cardinality(paths)
    /\ paths = 1..Len(arena)

\* The path p/q interned under two spellings by the two tasks, and another
\* path: two handles.
C7_Witness ==
    /\ Cardinality(interns) = 3
    /\ Cardinality({p[2] : p \in interns}) = 2
    /\ pc = [t \in Tasks |-> "idle"]

---------------------------------------------------------------------------
(* SpecIo: dependency_versions on the event loop.  The synchronous part of *)
(* a call is one step (the loop runs one task at a time); each subprocess  *)
(* of the Git handle is started in one step and exits in another, with a   *)
(* success or a failure that the environment chooses.                      *)

\* The number of descriptors loaded in one run of SpecIo.
MaxDeps == 2

IoLoadInputs ==
    {<<g[1], DeclGitRevision(g[2], "r1")>> : g \in GitDeps}
    \cup { <<"a", DeclPath(<<"p", "q">>)>>, <<"b", DeclVersion("^1")>> }

\* The file system a run starts from: each mirror is absent, or is there
\* from an earlier run with its config.
InitDisk ==
    disk \in [MirrorDirs -> {[exists |-> FALSE, config |-> FALSE],
                             [exists |-> TRUE, config |-> TRUE]}]

InitSpecIo ==
    /\ InitSession /\ InitTasks /\ InitHist
    /\ InitDisk
    /\ fut = [f \in Futs |-> IdleFut]
    /\ InitEnv

\* Session::intern_path as one step: the handle, and the arena and the set
\* after the call.
InternPath(buf) ==
    LET found == PathsGet(buf)
    IN  IF IsSome(found)
        THEN [handle |-> Unwrap(found), arena |-> arena, paths |-> paths]
        ELSE [handle |-> Len(arena) + 1, arena |-> Append(arena, buf),
              paths |-> paths \cup {Len(arena) + 1}]

\* load_dependency as one step.
IoLoadDependency(name, cfg) ==
    /\ ~aborted
    /\ Len(list) < MaxDeps
    /\ LET r == TableAdd([list |-> list, ids |-> ids], DeclaredEntry(name, cfg))
       IN  /\ list' = r.table.list
           /\ ids' = r.table.ids
           /\ first' = Remember(first, r.id, DeclaredEntry(name, cfg))
    /\ UNCHANGED <<names, arena, paths, taskVars, addlog, hist, loads, interns, ioVars, envVars>>

\* The steps of the acquisition, in the order git_database chains them.
AcquireSteps == {"init", "remote", "fetch"}

\* A slip: the fetch is chained to init, the remote is never added.
AfterStepNoRemote(mode, step, ok) ==
    CASE step = "init" /\ ok -> [st |-> "acquire", step |-> "fetch"]
      [] step = "fetch" /\ ok -> [st |-> "list", step |-> "none"]
      [] OTHER -> [st |-> "done", step |-> "none"]

\* A slip: the listings are chained with then, so they follow a failure too.
AfterStepThen(mode, step, ok) ==
    CASE step = "init" /\ ok -> [st |-> "acquire", step |-> "remote"]
      [] step = "remote" /\ ok -> [st |-> "acquire", step |-> "fetch"]
      [] step = "fetch" -> [st |-> "list", step |-> "none"]
      [] OTHER -> [st |-> "done", step |-> "none"]

\* and_then: where the future stands after a step has exited.  After init
\* comes remote add, after it fetch, after fetch git_versions; a failure ends
\* the future.
AfterStep(mode, step, ok) ==
    CASE step = "init" /\ ok -> [st |-> "acquire", step |-> "remote"]
      [] step = "remote" /\ ok -> [st |-> "acquire", step |-> "fetch"]
      [] step = "fetch" /\ ok -> [st |-> "list", step |-> "none"]
      [] OTHER -> [st |-> "done", step |-> "none"]

\* The error of a failed step: the map_err of the initialize branch chains
\* it with the directory; the update branch has no map_err.
AcquireError(mode, dir, step) ==
    IF mode = "clone"
    THEN ErrorChain("Failed to initialize git database in", dir, Failure(step))
    ELSE Failure(step)

\* dependency_versions(dep_id), with git_database for a Git source, up to
\* the future it returns.  mkdirOk: whether create_dir_all succeeds.
DV_Call(f, dep_id, mkdirOk) ==
    /\ ~aborted
    /\ fut[f].st = "idle"
    /\ IsSome(Dependency(dep_id))
    /\ LET dep == Unwrap(Dependency(dep_id))
       IN  CASE dep.source.kind = "Registry" ->
                  \* unimplemented!()
                  /\ aborted' = TRUE
                  /\ UNCHANGED <<arena, paths, disk, fut>>
             [] dep.source.kind = "Path" ->
                  /\ fut' = [fut EXCEPT ![f].st = "done", ![f].dep = dep_id,
                                        ![f].result = ResultOk("Path")]
                  /\ UNCHANGED <<arena, paths, disk, aborted>>
             [] dep.source.kind = "Git" ->
                  LET path == DbDir(dep.name, dep.source.arg[1])
                      ip == InternPath(path)
                  IN  /\ arena' = ip.arena
                      /\ paths' = ip.paths
                      /\ UNCHANGED aborted
                      /\ IF ~mkdirOk /\ ~disk[path].exists
                         THEN /\ fut' = [fut EXCEPT ![f].st = "done", ![f].dep = dep_id,
                                            ![f].dir = ip.handle,
                                            ![f].result = ResultErr(ErrorChain(
                                                "Failed to create git database directory",
                                                ip.handle, Failure("create_dir_all")))]
                              /\ UNCHANGED disk
                         ELSE /\ disk' = [disk EXCEPT ![path].exists = TRUE]
                              /\ fut' = [fut EXCEPT ![f].st = "acquire", ![f].dep = dep_id,
                                            ![f].dir = ip.handle,
                                            ![f].mode = IF disk[path].config THEN "update" ELSE "clone",
                                            ![f].step = IF disk[path].config THEN "fetch" ELSE "init"]
    /\ UNCHANGED <<list, ids, names, owner, pc, loc, ncalls, obs, histVars, envVars>>

\* Git::spawn_with / Git::fetch: the subprocess of the current step starts.
StepStart(f) ==
    /\ ~aborted
    /\ fut[f].st = "acquire"
    /\ ~fut[f].running
    /\ fut' = [fut EXCEPT ![f].running = TRUE,
                          ![f].ev = Append(@, <<fut[f].step, "start">>)]
    /\ UNCHANGED <<sessVars, taskVars, histVars, disk, envVars>>

\* The subprocess of the current step exits; git init leaves the config.
StepExit(f, ok) ==
    /\ ~aborted
    /\ fut[f].st = "acquire"
    /\ fut[f].running
    /\ LET after == AfterStep(fut[f].mode, fut[f].step, ok)
       IN  fut' = [fut EXCEPT
                ![f].running = FALSE,
                ![f].ev = Append(@, <<fut[f].step, IF ok THEN "ok" ELSE "fail">>),
                ![f].st = after.st,
                ![f].step = after.step,
                ![f].refs = IF after.st = "list" THEN "pending" ELSE @,
                ![f].revs = IF after.st = "list" THEN "pending" ELSE @,
                ![f].result = IF after.st = "done"
                              THEN ResultErr(AcquireError(fut[f].mode, fut[f].dir, fut[f].step))
                              ELSE @]
    /\ disk' = IF ok /\ fut[f].step = "init"
               THEN [disk EXCEPT ![arena[fut[f].dir]].config = TRUE]
               ELSE disk
    /\ UNCHANGED <<sessVars, taskVars, histVars, envVars>>

\* git.list_refs() / git.list_revs(): the subprocess of a listing starts.
ListStart(f, which) ==
    /\ ~aborted
    /\ fut[f].st = "list"
    /\ fut[f][which] = "pending"
    /\ fut' = [fut EXCEPT ![f][which] = "running",
                          ![f].ev = Append(@, <<which, "start">>)]
    /\ UNCHANGED <<sessVars, taskVars, histVars, disk, envVars>>

\* A listing exits.  join fails with the first failure; when both listings
\* have succeeded the closure of and_then classifies the refs.
ListExit(f, which, ok) ==
    /\ ~aborted
    /\ fut[f].st = "list"
    /\ fut[f][which] = "running"
    /\ LET other == IF which = "refs" THEN "revs" ELSE "refs"
           exited == Append(fut[f].ev, <<which, IF ok THEN "ok" ELSE "fail">>)
       IN  IF ~ok
           THEN fut' = [fut EXCEPT ![f][which] = "failed", ![f].ev = exited,
                                   ![f].st = "done",
                                   ![f].result = ResultErr(Failure(which))]
           ELSE IF fut[f][other] = "ok"
           THEN fut' = [fut EXCEPT ![f][which] = "ok",
                                   ![f].ev = Append(exited, <<"classify", "run">>),
                                   ![f].st = "done",
                                   ![f].result = ResultOk("Git")]
           ELSE fut' = [fut EXCEPT ![f][which] = "ok", ![f].ev = exited]
    /\ UNCHANGED <<sessVars, taskVars, histVars, disk, envVars>>

NextIo ==
    \/ \E in \in IoLoadInputs : IoLoadDependency(in[1], in[2])
    \/ \E f \in Futs : \E r \in KnownRefs : \E mkdirOk \in BOOLEAN : DV_Call(f, r, mkdirOk)
    \/ \E f \in Futs : StepStart(f)
    \/ \E f \in Futs : \E ok \in BOOLEAN : StepExit(f, ok)
    \/ \E f \in Futs : \E which \in {"refs", "revs"} : ListStart(f, which)
    \/ \E f \in Futs : \E which \in {"refs", "revs"} : \E ok \in BOOLEAN : ListExit(f, which, ok)

SpecIo == InitSpecIo /\ [][NextIo]_vars

---------------------------------------------------------------------------
\* Event x is in the log e before position i.
Before(e, x, i) == \E j \in 1..(i - 1) : e[j] = x

(* C8: within one dependency_versions of a Git dependency, a listing is    *)
(* started only after the acquisition of that future has succeeded (init,  *)
(* remote add and fetch on a new mirror, fetch alone on an existing one);  *)
(* the classification runs only after both listings have succeeded; and    *)
(* when a step of the acquisition fails, nothing follows it: no listing is *)
(* started and the future's result is that failure.                        *)
C8_AcquireBeforeList ==
    \A f \in Futs :
        LET e == fut[f].ev
        IN  \A i \in 1..Len(e) :
              /\ (e[i][1] \in {"refs", "revs"} /\ e[i][2] = "start") =>
                    /\ Before(e, <<"fetch", "ok">>, i)
                    /\ fut[f].mode = "clone" =>
                          Before(e, <<"init", "ok">>, i) /\ Before(e, <<"remote", "ok">>, i)
                    /\ \A j \in 1..(i - 1) : e[j][2] # "fail"
              /\ e[i] = <<"classify", "run">> =>
                    Before(e, <<"refs", "ok">>, i) /\ Before(e, <<"revs", "ok">>, i)
              /\ (e[i][1] \in AcquireSteps /\ e[i][2] = "fail") =>
                    /\ i = Len(e)
                    /\ fut[f].st = "done"
                    /\ ~fut[f].result.ok
                    /\ fut[f].result.err.what = e[i][1]

\* One future has cloned a mirror, listed and classified; the other one's
\* acquisition has failed.
C8_Witness ==
    \E f, g \in Futs :
        /\ fut[f].mode = "clone"
        /\ fut[f].result = ResultOk("Git")
        /\ fut[g].st = "done"
        /\ fut[g].ev # <<>>
        /\ fut[g].ev[Len(fut[g].ev)] = <<"fetch", "fail">>

---------------------------------------------------------------------------
(* C9: every failure of a subprocess step of the acquisition (init, remote *)
(* add or fetch, on a new mirror and on an existing one alike) reaches the *)
(* caller as one chained error whose message names the mirror directory    *)
(* and whose cause is the failure; the failed step is not started again.   *)
C9_FailuresChained ==
    \A f \in Futs :
        LET e == fut[f].ev
        IN  \A i \in 1..Len(e) :
              (e[i][1] \in AcquireSteps /\ e[i][2] = "fail") =>
                  /\ ~fut[f].result.ok
                  /\ fut[f].result.err.chain
                  /\ fut[f].result.err.dir = fut[f].dir
                  /\ fut[f].result.err.what = e[i][1]
                  /\ Cardinality({j \in 1..Len(e) : e[j] = <<e[i][1], "start">>}) = 1

---------------------------------------------------------------------------
\* The acquisition of a future is in flight: a step of it has started and
\* the sequence has not ended.
InFlight(f) == fut[f].st = "acquire" /\ fut[f].ev # <<>>

(* C10: concurrent acquisitions of one mirror directory are deduplicated:  *)
(* at no time are two init / remote add / fetch sequences in flight on the *)
(* same directory.                                                         *)
C10_Deduplicated ==
    \A f, g \in Futs :
        (f # g /\ InFlight(f) /\ InFlight(g)) => fut[f].dir # fut[g].dir

---------------------------------------------------------------------------
(* SpecVersions: the closure of git_versions on the resolved listings.  A  *)
(* ref name is the sequence of its characters; a hash is a string; a       *)
(* HashMap<String, String> is a function from the keys to the values.      *)

\* The number of refs in a listing.
MaxRefs == 3

Chars_refs == <<"r", "e", "f", "s", "/">>
\* tag_pfx = "refs/tags/" and branch_pfx = "refs/remotes/origin/"
tag_pfx == Chars_refs \o <<"t", "a", "g", "s", "/">>
branch_pfx ==
    Chars_refs \o <<"r", "e", "m", "o", "t", "e", "s", "/">> \o <<"o", "r", "i", "g", "i", "n", "/">>

\* str::starts_with, and the slice rf[pfx.len()..]
StartsWith(s, pfx) == Len(s) >= Len(pfx) /\ SubSeq(s, 1, Len(pfx)) = pfx
StripPrefix(s, pfx) == SubSeq(s, Len(pfx) + 1, Len(s))

\* rev_ids: HashSet<&str> of the revisions
RevIds(revs) == {revs[i] : i \in 1..Len(revs)}

\* A slip: every hash is taken for a known revision.
RevIdsContainsAny(rev_ids, hash) == TRUE

\* rev_ids.contains(hash.as_str())
RevIdsContains(rev_ids, hash) == hash \in rev_ids

\* HashMap::insert
MapInsert(m, k, v) == (k :> v) @@ m

\* The for loop over refs: the tags and the branches after it.
RECURSIVE SplitRefs(_, _, _)
SplitRefs(refs, rev_ids, acc) ==
    IF refs = <<>> THEN acc
    ELSE LET hash == Head(refs)[1]
             rf == Head(refs)[2]
             next ==
                 IF ~RevIdsContains(rev_ids, hash) THEN acc
                 ELSE IF StartsWith(rf, tag_pfx)
                 THEN [acc EXCEPT !.tags = MapInsert(@, StripPrefix(rf, tag_pfx), hash)]
                 ELSE IF StartsWith(rf, branch_pfx)
                 THEN [acc EXCEPT !.branches = MapInsert(@, StripPrefix(rf, branch_pfx), hash)]
                 ELSE acc
         IN  SplitRefs(Tail(refs), rev_ids, next)

\* The closure of filter_map: Some((v, hash)) for a tag "v<semver>".
VersionOfTag(tag, hash) ==
    IF StartsWith(tag, <<"v">>)
    THEN LET v == ParseVersion(Tail(tag))
         IN  IF IsSome(v) THEN Some(<<Unwrap(v), hash>>) ELSE None
    ELSE None

\* tags.iter().filter_map(..).collect(), the map iterated in the given order.
RECURSIVE FilterMapTags(_, _)
FilterMapTags(tags, order) ==
    IF order = <<>> THEN <<>>
    ELSE VersionOfTag(Head(order), tags[Head(order)]) \o FilterMapTags(tags, Tail(order))

\* Ord of semver::Version on major, minor, patch, and of String on the hashes
\* of the model, whose byte order is h1 < h2.
VersionLess(v, w) ==
    \/ v[1] < w[1]
    \/ v[1] = w[1] /\ v[2] < w[2]
    \/ v[1] = w[1] /\ v[2] = w[2] /\ v[3] < w[3]

Hashes == {"h1", "h2"}
HashRank(h) == IF h = "h1" THEN 1 ELSE 2

\* a.cmp(b) == Less on (semver::Version, String)
CmpLess(a, b) ==
    \/ VersionLess(a[1], b[1])
    \/ a[1] = b[1] /\ HashRank(a[2]) < HashRank(b[2])

\* A slip: the comparator is a.cmp(b), the oldest version first.
SortsBeforeAscending(a, b) == CmpLess(a, b)

\* The comparator |a,b| b.cmp(a): a sorts before b when b is less than a.
SortsBefore(a, b) == CmpLess(b, a)

\* The place of x in a sorted vector: behind every element it does not sort
\* before (sort_by is stable).
RECURSIVE SortedInsert(_, _)
SortedInsert(sorted, x) ==
    IF sorted = <<>> THEN <<x>>
    ELSE IF SortsBefore(x, Head(sorted)) THEN <<x>> \o sorted
    ELSE <<Head(sorted)>> \o SortedInsert(Tail(sorted), x)

\* versions.sort_by(|a,b| b.cmp(a))
RECURSIVE SortBy(_)
SortBy(v) ==
    IF v = <<>> THEN <<>>
    ELSE SortedInsert(SortBy(SubSeq(v, 1, Len(v) - 1)), v[Len(v)])

\* A slip: the branches are chained behind the tags and override them.
MergeBranchesLast(tags, branches) == branches @@ tags

\* branches.into_iter().chain(tags.into_iter()).collect(): an insert of a
\* key that is there replaces the value, so the tags, which come last, win.
MergeRefs(tags, branches) == tags @@ branches

\* The orders in which a HashMap with the key set S may be iterated.
Orders(S) ==
    {o \in [1..Cardinality(S) -> S] : \A i, j \in 1..Cardinality(S) : o[i] = o[j] => i = j}

\* The GitVersions the closure returns, the tags iterated in the given order.
GitVersions(refs, revs, order) ==
    LET split == SplitRefs(refs, RevIds(revs), [tags |-> <<>>, branches |-> <<>>])
    IN  [versions |-> SortBy(FilterMapTags(split.tags, order)),
         refs |-> MergeRefs(split.tags, split.branches),
         revs |-> revs]

\* The tags of a listing: the keys of the closure's tags map.
TagsOf(refs, revs) ==
    DOMAIN SplitRefs(refs, RevIds(revs), [tags |-> <<>>, branches |-> <<>>]).tags

\* The listings: tags v1.0.0, v2.0.0 and v10.0.0, a tag v1.0 that is no
\* version, a tag and a branch both named main, a branch named v2.0.0, and a
\* ref under refs/heads/; each at hash h1 or h2; one or both hashes known
\* revisions, or none.
Chars_main == <<"m", "a", "i", "n">>
Chars_v1 == <<"v", "1", ".", "0", ".", "0">>
Chars_v2 == <<"v", "2", ".", "0", ".", "0">>
Chars_v10 == <<"v", "1", "0", ".", "0", ".", "0">>
RefNames ==
    {tag_pfx \o Chars_v1, tag_pfx \o Chars_v2, tag_pfx \o Chars_v10,
     tag_pfx \o <<"v", "1", ".", "0">>, tag_pfx \o Chars_main,
     branch_pfx \o Chars_main, branch_pfx \o Chars_v2,
     Chars_refs \o <<"h", "e", "a", "d", "s", "/">> \o Chars_main}
RefLists == UNION {[1..n -> Hashes \X RefNames] : n \in 0..MaxRefs}
RevLists == {<<>>, <<"h1">>, <<"h2", "h1">>}

InitVersions ==
    /\ InitSession /\ InitTasks /\ InitHist /\ InitIo
    /\ root = SessionRoot
    /\ lsrefs \in RefLists
    /\ lsrevs \in RevLists
    /\ gitv = None

\* dep_refs.join(dep_revs).and_then(closure): the closure runs on the two
\* listings and builds the GitVersions.
GitVersionsThen(order) ==
    /\ gitv = None
    /\ gitv' = Some(GitVersions(lsrefs, lsrevs, order))
    /\ UNCHANGED <<sessVars, taskVars, histVars, ioVars, root, lsrefs, lsrevs>>

NextVersions == \E order \in Orders(TagsOf(lsrefs, lsrevs)) : GitVersionsThen(order)

SpecVersions == InitVersions /\ [][NextVersions]_vars

---------------------------------------------------------------------------
\* The refs of the listing that point to a listed revision, by position, and
\* the names of the tags and of the branches among them.
Surviving == {i \in 1..Len(lsrefs) : lsrefs[i][1] \in RevIds(lsrevs)}
SurvivingTags == {StripPrefix(lsrefs[i][2], tag_pfx) :
                     i \in {j \in Surviving : StartsWith(lsrefs[j][2], tag_pfx)}}
SurvivingBranches == {StripPrefix(lsrefs[i][2], branch_pfx) :
                         i \in {j \in Surviving : StartsWith(lsrefs[j][2], branch_pfx)}}

\* The hash of the last surviving ref of the listing with the full name rf.
LastHash(rf) ==
    LET at == {i \in Surviving : lsrefs[i][2] = rf}
    IN  lsrefs[CHOOSE i \in at : \A j \in at : j <= i][1]

\* The listing without the refs that point to no listed revision and without
\* the refs that have neither prefix.
RECURSIVE KeptRefs(_, _)
KeptRefs(refs, revs) ==
    IF refs = <<>> THEN <<>>
    ELSE (IF /\ Head(refs)[1] \in RevIds(revs)
             /\ StartsWith(Head(refs)[2], tag_pfx) \/ StartsWith(Head(refs)[2], branch_pfx)
          THEN <<Head(refs)>> ELSE <<>>) \o KeptRefs(Tail(refs), revs)

(* C11: in what git_versions returns, every key of refs is the stripped    *)
(* name of a listed tag or branch whose hash is a listed revision, mapped  *)
(* to that hash; every pair of versions carries the hash of such a tag;    *)
(* and the result is the one the listing gives without its refs at unknown *)
(* hashes and without its refs that have neither prefix.                   *)
C11_RefFiltering ==
    IsSome(gitv) =>
        LET g == Unwrap(gitv)
        IN  /\ \A k \in DOMAIN g.refs :
                  /\ g.refs[k] \in RevIds(lsrevs)
                  /\ \E i \in Surviving :
                        /\ lsrefs[i][2] \in {tag_pfx \o k, branch_pfx \o k}
                        /\ lsrefs[i][1] = g.refs[k]
            /\ \A j \in 1..Len(g.versions) :
                  /\ g.versions[j][2] \in RevIds(lsrevs)
                  /\ \E i \in Surviving :
                        /\ StartsWith(lsrefs[i][2], tag_pfx)
                        /\ lsrefs[i][1] = g.versions[j][2]
            /\ \E o \in Orders(TagsOf(KeptRefs(lsrefs, lsrevs), lsrevs)) :
                  g = GitVersions(KeptRefs(lsrefs, lsrevs), lsrevs, o)

\* A listing with a version tag at an unknown hash, a ref under refs/heads/
\* at a known one, and a ref that is kept.
C11_Witness ==
    /\ IsSome(gitv)
    /\ DOMAIN Unwrap(gitv).refs # {}
    /\ \E i \in 1..Len(lsrefs) :
          lsrefs[i][1] \notin RevIds(lsrevs) /\ lsrefs[i][2] = tag_pfx \o Chars_v1
    /\ \E i \in Surviving :
          ~StartsWith(lsrefs[i][2], tag_pfx) /\ ~StartsWith(lsrefs[i][2], branch_pfx)

---------------------------------------------------------------------------
\* The names of the surviving tags that are "v" followed by a version.
VersionTags ==
    {k \in SurvivingTags : StartsWith(k, <<"v">>) /\ IsSome(ParseVersion(Tail(k)))}

(* C12: versions holds one pair for each surviving tag named v<semver>,    *)
(* the parsed version with the tag's hash, and nothing else; and no        *)
(* element has a lower version than an element behind it.                  *)
C12_VersionsSorted ==
    IsSome(gitv) =>
        LET v == Unwrap(gitv).versions
        IN  /\ Len(v) = Cardinality(VersionTags)
            /\ \A k \in VersionTags :
                  Cardinality({j \in 1..Len(v) :
                      v[j] = <<Unwrap(ParseVersion(Tail(k))), LastHash(tag_pfx \o k)>>}) = 1
            /\ \A i, j \in 1..Len(v) : i < j => ~VersionLess(v[i][1], v[j][1])

\* Tags v2.0.0 and v10.0.0 listed in that order, and a surviving ref that is
\* no version tag: versions is 10.0.0, then 2.0.0.
C12_Witness ==
    /\ IsSome(gitv)
    /\ Len(Unwrap(gitv).versions) = 2
    /\ Unwrap(gitv).versions[1][1] = <<10, 0, 0>>
    /\ Unwrap(gitv).versions[2][1] = <<2, 0, 0>>
    /\ \E i, j \in Surviving :
          i < j /\ lsrefs[i][2] = tag_pfx \o Chars_v2 /\ lsrefs[j][2] = tag_pfx \o Chars_v10
    /\ SurvivingBranches \cup (SurvivingTags \ VersionTags) # {}

---------------------------------------------------------------------------
(* C13: refs maps the name of every surviving tag to the tag's hash, also  *)
(* when a surviving branch has the same name, and the name of a surviving  *)
(* branch that is no tag to the branch's hash.                             *)
C13_TagsOverBranches ==
    IsSome(gitv) =>
        LET refs == Unwrap(gitv).refs
        IN  /\ DOMAIN refs = SurvivingTags \cup SurvivingBranches
            /\ \A k \in SurvivingTags : refs[k] = LastHash(tag_pfx \o k)
            /\ \A k \in SurvivingBranches \ SurvivingTags : refs[k] = LastHash(branch_pfx \o k)

\* A tag main at one hash listed before a branch main at the other, and a
\* name that is a branch only.
C13_Witness ==
    /\ IsSome(gitv)
    /\ \E i, j \in Surviving :
          /\ i < j
          /\ lsrefs[i][2] = tag_pfx \o Chars_main
          /\ lsrefs[j][2] = branch_pfx \o Chars_main
          /\ lsrefs[i][1] # lsrefs[j][1]
          /\ Unwrap(gitv).refs[Chars_main] = lsrefs[i][1]
    /\ SurvivingBranches \ SurvivingTags # {}

---------------------------------------------------------------------------
(* SpecCheckout: dependency_versions and checkout on the event loop, on    *)
(* descriptors from load_dependency and from load_locked, in a session     *)
(* whose package root is one of Roots.                                     *)

\* Package roots, as the canonical paths the tool is started with.
Roots == {<<"/", "w", "x">>, <<"/", "w", "y">>}

\* format!("{:?}", self.sess.root): the path as written, in quotes.
DebugPath(p) == <<"\"">> \o p \o <<"\"">>

\* A slip: the root is not fed to the hasher.
HasherInputUrlOnly(url, r) == <<url>>

\* hasher.input(url.as_bytes()); hasher.input(format!("{:?}", root).as_bytes())
HasherInput(url, r) == <<url>> \o DebugPath(r)

\* The first 16 hex characters of the BLAKE2 digest of the hasher's input.
\* The digest is not computed: it stands for its input, so that different
\* inputs have different digests.
CheckoutDigest16(url, r) == <<"blake2b", HasherInput(url, r)>>

\* format!("{}-{}", dep.name, hash)
CheckoutName(name, url, r) == <<name, "-", CheckoutDigest16(url, r)>>

\* config.database.join("git").join("checkouts").join(checkout_name)
CheckoutDir(name, url, r) == <<"database", "git", "checkouts", CheckoutName(name, url, r)>>

CheckoutDirs == {CheckoutDir(g[1], g[2], r) : g \in GitDeps, r \in Roots}

\* Error::new(msg)
ErrorNew(msg) == [chain |-> FALSE, msg |-> msg, dir |-> 0, what |-> ""]

\* Lock files of one package: the git dependency a at u1 pinned to r1 and to
\* r2, a path dependency, a registry dependency.
LockA2 == "a" :> LockedPackage(LockedGit("u1"), Some("r2"), None)
LockP == "b" :> LockedPackage(LockedPath(<<"r", "q">>), None, None)
CheckoutLocks == {LockA, LockA2, LockP, LockB}

\* The file system a run starts from: no mirror, and the checkout
\* directories all absent, or all there from an earlier run.
InitCheckoutDisk ==
    \E there \in BOOLEAN :
        disk = [d \in MirrorDirs \cup CheckoutDirs |->
                   IF d \in CheckoutDirs /\ there
                   THEN [exists |-> TRUE, config |-> TRUE]
                   ELSE [exists |-> FALSE, config |-> FALSE]]

InitCheckout ==
    /\ InitSession /\ InitTasks /\ InitHist
    /\ InitCheckoutDisk
    /\ fut = [f \in Futs |-> IdleFut]
    /\ root \in Roots
    /\ lsrefs = <<>> /\ lsrevs = <<>> /\ gitv = None

\* load_locked as one step, for a lock file of one package.
IoLoadLocked(locked) ==
    /\ ~aborted
    /\ Len(list) < MaxDeps
    /\ LET n == CHOOSE x \in DOMAIN locked : TRUE
           entry == LockedEntry(n, locked[n])
           r == TableAdd([list |-> list, ids |-> ids], entry)
       IN  /\ ~LockedVersionPanics(locked[n])
           /\ list' = r.table.list
           /\ ids' = r.table.ids
           /\ names' = NamesAssigned(names, NamesInsert(<<>>, n, r.id))
           /\ first' = Remember(first, r.id, entry)
    /\ UNCHANGED <<arena, paths, taskVars, addlog, hist, loads, interns, ioVars, envVars>>


\* A slip: the future of a path checkout is not ready, it waits for a fetch.
CheckoutOfPathDeferred(ft, dep_id, handle) ==
    [ft EXCEPT !.st = "acquire", !.dep = dep_id, !.mode = "checkout", !.dir = handle,
               !.step = "fetch"]

\* future::ok(self.sess.intern_path(path.clone())): the ready future of a
\* path checkout; its item is the path at dir.
CheckoutOfPath(ft, dep_id, handle) ==
    [ft EXCEPT !.st = "done", !.dep = dep_id, !.mode = "checkout", !.dir = handle,
               !.result = ResultOk("path")]

\* checkout(dep_id), with checkout_git for a Git source, up to the future
\* it returns.  mkdirOk: whether create_dir_all succeeds.
Checkout(f, dep_id, mkdirOk) ==
    /\ ~aborted
    /\ fut[f].st = "idle"
    /\ IsSome(Dependency(dep_id))
    /\ LET dep == Unwrap(Dependency(dep_id))
       IN  CASE dep.source.kind = "Registry" ->
                  \* unimplemented!()
                  /\ aborted' = TRUE
                  /\ UNCHANGED <<arena, paths, disk, fut>>
             [] dep.source.kind = "Path" ->
                  LET ip == InternPath(dep.source.arg)
                  IN  /\ arena' = ip.arena
                      /\ paths' = ip.paths
                      /\ fut' = [fut EXCEPT ![f] = CheckoutOfPath(@, dep_id, ip.handle)]
                      /\ UNCHANGED <<disk, aborted>>
             [] dep.source.kind = "Git" ->
                  LET path == CheckoutDir(dep.name, dep.source.arg[1], root)
                      ip == InternPath(path)
                  IN  /\ arena' = ip.arena
                      /\ paths' = ip.paths
                      /\ IF ~mkdirOk /\ ~disk[path].exists
                         THEN /\ fut' = [fut EXCEPT ![f].st = "done", ![f].dep = dep_id,
                                            ![f].mode = "checkout", ![f].dir = ip.handle,
                                            ![f].result = ResultErr(ErrorChain(
                                                "Failed to create git checkout directory",
                                                ip.handle, Failure("create_dir_all")))]
                              /\ UNCHANGED <<disk, aborted>>
                         ELSE /\ disk' = [disk EXCEPT ![path].exists = TRUE]
                              /\ IF IsSome(dep.revision)
                                 THEN \* checkout_git
                                      /\ fut' = [fut EXCEPT ![f].st = "done", ![f].dep = dep_id,
                                                    ![f].mode = "checkout", ![f].dir = ip.handle,
                                                    ![f].result = ResultErr(ErrorNew(
                                                        "Checkout of git dependency not implemented"))]
                                      /\ UNCHANGED aborted
                                 ELSE \* dep.revision.as_ref().unwrap() on None
                                      /\ aborted' = TRUE
                                      /\ UNCHANGED fut
    /\ UNCHANGED <<list, ids, names, owner, pc, loc, ncalls, obs, histVars, envVars>>

\* The listings of git_versions are left to SpecIo: here a future whose
\* mirror is acquired stays where it is.
NextCheckout ==
    \/ \E in \in IoLoadInputs : IoLoadDependency(in[1], in[2])
    \/ \E f \in Futs : \E r \in KnownRefs : \E mkdirOk \in BOOLEAN : DV_Call(f, r, mkdirOk)
    \/ \E f \in Futs : StepStart(f)
    \/ \E f \in Futs : \E ok \in BOOLEAN : StepExit(f, ok)
    \/ \E locked \in CheckoutLocks : IoLoadLocked(locked)
    \/ \E f \in Futs : \E r \in KnownRefs : \E mkdirOk \in BOOLEAN : Checkout(f, r, mkdirOk)

SpecCheckout == InitCheckout /\ [][NextCheckout]_vars

---------------------------------------------------------------------------
\* The source of the descriptor a future was asked for.
SourceOf(ft) == list[ft.dep + 1].source

\* A future that has been returned for a path dependency.
OfPath(ft) == ft.st # "idle" /\ SourceOf(ft).kind = "Path"

\* Every future returned for a path dependency is ready, with
\* DependencyVersions::Path or with the interned configured path, and no
\* subprocess was started for it.
C14_Ready ==
    \A f \in Futs :
        OfPath(fut[f]) =>
            /\ fut[f].st = "done"
            /\ fut[f].ev = <<>>
            /\ ~fut[f].running
            /\ fut[f].result.ok
            /\ IF fut[f].mode = "checkout"
               THEN /\ fut[f].result = ResultOk("path")
                    /\ fut[f].dir \in paths
                    /\ PathEq(arena[fut[f].dir], SourceOf(fut[f]).arg)
               ELSE fut[f].result = ResultOk("Path")

\* The step that returns a future for a path dependency leaves the file
\* system as it is.
C14_NoDirectory ==
    (\E f \in Futs : fut[f].st = "idle" /\ OfPath(fut'[f])) => disk' = disk

(* C14: for a path dependency, dependency_versions returns a ready future  *)
(* of DependencyVersions::Path and checkout a ready future of the interned *)
(* configured path; no subprocess is started for either, now or later, and *)
(* the call creates no mirror and no checkout directory.                   *)
C14_PathShortcut == [](C14_Ready) /\ [][C14_NoDirectory]_vars

\* Both calls made for a path dependency, while the other calls of the run
\* could have been for git dependencies.
C14_Witness ==
    \E f, g \in Futs :
        /\ OfPath(fut[f]) /\ fut[f].mode = "checkout" /\ fut[f].result = ResultOk("path")
        /\ OfPath(fut[g]) /\ fut[g].mode # "checkout" /\ fut[g].result.ok
        /\ fut[f].dep = fut[g].dep

---------------------------------------------------------------------------
(* C15: dependency_versions on a registry dependency, checkout on a        *)
(* registry dependency and checkout on a git dependency, with or without a *)
(* pinned revision, return a failure to the caller: no call panics, and    *)
(* the future of such a call is ready with an error.                       *)
C15_ExplicitFailure ==
    /\ ~aborted
    /\ \A f \in Futs :
          (/\ fut[f].st # "idle"
           /\ \/ SourceOf(fut[f]).kind = "Registry"
              \/ SourceOf(fut[f]).kind = "Git" /\ fut[f].mode = "checkout") =>
              fut[f].st = "done" /\ ~fut[f].result.ok

---------------------------------------------------------------------------
\* A future that checkout has returned for a git dependency.
GitCheckout(ft) == ft.st # "idle" /\ ft.mode = "checkout" /\ SourceOf(ft).kind = "Git"

(* C16: the checkout directory of a git dependency is the one computed     *)
(* from its name, its url and the package root: two checkouts of the same  *)
(* name and url in one session have the same directory, whatever else      *)
(* their descriptors hold, and under another root the same name and url    *)
(* give another directory name.                                            *)
C16_CheckoutScoping ==
    \A f \in Futs :
        GitCheckout(fut[f]) =>
            LET name == list[fut[f].dep + 1].name
                url == SourceOf(fut[f]).arg[1]
            IN  /\ arena[fut[f].dir] = CheckoutDir(name, url, root)
                /\ \A g \in Futs :
                      (/\ GitCheckout(fut[g])
                       /\ list[fut[g].dep + 1].name = name
                       /\ SourceOf(fut[g]).arg[1] = url) => fut[g].dir = fut[f].dir
                /\ \A r \in Roots \ {root} :
                      CheckoutName(name, url, r) # arena[fut[f].dir][4]

\* Two checkouts of a at u1, one of the descriptor pinned to r1 and one of
\* the descriptor pinned to r2.
C16_Witness ==
    \E f, g \in Futs :
        /\ GitCheckout(fut[f]) /\ GitCheckout(fut[g])
        /\ fut[f].dep # fut[g].dep
        /\ list[fut[f].dep + 1].name = list[fut[g].dep + 1].name
        /\ SourceOf(fut[f]) = SourceOf(fut[g])
        /\ fut[f].dir = fut[g].dir

---------------------------------------------------------------------------
\* A future that dependency_versions has returned for a git dependency.
GitVersionsOf(ft) == ft.st # "idle" /\ ft.mode # "checkout" /\ SourceOf(ft).kind = "Git"

(* C17: the mirror directory of a git dependency is                        *)
(* <database>/git/db/<name>-<digest of the url>, whatever the file system  *)
(* holds and whatever else the descriptor holds: two acquisitions for the  *)
(* same name and url resolve to the same directory, and two for the same   *)
(* name and different urls to different directories.                       *)
C17_MirrorNaming ==
    \A f \in Futs :
        GitVersionsOf(fut[f]) =>
            LET name == list[fut[f].dep + 1].name
                url == SourceOf(fut[f]).arg[1]
                dir == arena[fut[f].dir]
            IN  /\ Len(dir) = 4
                /\ SubSeq(dir, 1, 3) = <<"database", "git", "db">>
                /\ dir[4] = <<name, "-", UrlDigest16(url)>>
                /\ \A g \in Futs :
                      (GitVersionsOf(fut[g]) /\ list[fut[g].dep + 1].name = name) =>
                          (fut[g].dir = fut[f].dir <=> SourceOf(fut[g]).arg[1] = url)

\* Acquisitions for a at u1 and for a at u2, in different directories.
C17_Witness ==
    \E f, g \in Futs :
        /\ GitVersionsOf(fut[f]) /\ GitVersionsOf(fut[g])
        /\ list[fut[f].dep + 1].name = list[fut[g].dep + 1].name
        /\ SourceOf(fut[f]).arg[1] = "u1" /\ SourceOf(fut[g]).arg[1] = "u2"
        /\ fut[f].dir # fut[g].dir

---------------------------------------------------------------------------
\* The events of the acquisition in the log of a future.
IsAcquireEvent(e) == e[1] \in AcquireSteps
AcquireLog(ft) == SelectSeq(ft.ev, IsAcquireEvent)

IsPrefix(s, t) == Len(s) <= Len(t) /\ SubSeq(t, 1, Len(s)) = s

\* The logs of an acquisition that has come to its end: on a directory
\* without config, init, remote add and fetch, each started once, up to the
\* first failure; on a directory with config, one fetch.
CloneRun(n) == SubSeq(<<<<"init", "start">>, <<"init", "ok">>, <<"remote", "start">>,
                        <<"remote", "ok">>, <<"fetch", "start">>, <<"fetch", "ok">>>>, 1, n)
CloneLogs ==
    {CloneRun(6)} \cup
    {Append(CloneRun(n), <<CloneRun(n)[n][1], "fail">>) : n \in {1, 3, 5}}
UpdateLogs == {<<<<"fetch", "start">>, <<"fetch", ok>>>> : ok \in {"ok", "fail"}}
EndedLogs(mode) == IF mode = "clone" THEN CloneLogs ELSE UpdateLogs

\* A future of a git dependency whose directory could be created.
Acquiring(ft) == ft.st # "idle" /\ ft.mode \in {"clone", "update"}

\* The log of every acquisition is the beginning of an ended log of its
\* branch, and the whole of one when the acquisition is over; the listings
\* follow the log without a failure.
C18_Log ==
    \A f \in Futs :
        Acquiring(fut[f]) =>
            LET log == AcquireLog(fut[f])
            IN  /\ \E full \in EndedLogs(fut[f].mode) : IsPrefix(log, full)
                /\ fut[f].st # "acquire" => log \in EndedLogs(fut[f].mode)
                /\ fut[f].st = "list" => log[Len(log)] = <<"fetch", "ok">>

\* The branch is taken by the config file at the time of the call.
C18_Branch ==
    \A f \in Futs :
        (fut[f].st = "idle" /\ Acquiring(fut'[f])) =>
            (fut'[f].mode = "clone" <=> ~disk[arena'[fut'[f].dir]].config)

---------------------------------------------------------------------------
\* The descriptor of every declaration the calls draw from has the name
\* given, the source of the declaration's kind, and no pinned revision and
\* no pinned version.
C19_Maps ==
    \A in \in LoadInputs :
        LET e == DeclaredEntry(in[1], in[2])
            cfg == in[2]
        IN  /\ e.name = in[1]
            /\ e.revision = None
            /\ e.version = None
            /\ cfg.kind = "Version" => e.source = [kind |-> "Registry", arg |-> <<>>]
            /\ cfg.kind = "Path" => e.source = [kind |-> "Path", arg |-> cfg.arg]
            /\ cfg.kind \in {"GitRevision", "GitVersion"} =>
                  e.source = [kind |-> "Git", arg |-> <<cfg.arg[1]>>]

\* A name that no completed load_locked had in its lock file does not
\* resolve.
C19_Unresolvable ==
    \A n \in DepNames :
        (\A i \in 1..Len(loads) : n \notin DOMAIN loads[i]) => ~DependencyWithName(n).ok

\* The steps of a load_dependency leave the name table, the arena and the
\* path set as they are; the table is unchanged, or has the descriptor of
\* the declaration appended.
C19_Frame ==
    \A t \in Tasks :
        (pc[t] # pc'[t] /\ "ld_add" \in {pc[t], pc'[t]}) =>
            /\ names' = names /\ arena' = arena /\ paths' = paths
            /\ pc'[t] = "ld_add" =>
                  /\ list' = list /\ ids' = ids
                  /\ loc'[t].entry \in {DeclaredEntry(in[1], in[2]) : in \in LoadInputs}
            /\ pc[t] = "ld_add" =>
                  \/ list' = list /\ ids' = ids
                  \/ list' = Append(list, loc[t].entry)

(* C19: load_dependency turns a Version declaration into a Registry        *)
(* source, a Path declaration into Path(p), a GitRevision or GitVersion    *)
(* declaration into Git(url), with no pinned revision and no pinned        *)
(* version; it changes the dependency table only, not the name table and   *)
(* not the interned paths, so a name that only load_dependency has brought *)
(* in is not resolved by dependency_with_name.                             *)
C19_LoadDependencyFrame == [](C19_Maps /\ C19_Unresolvable) /\ [][C19_Frame]_vars

\* load_dependency has added a descriptor named n, a load_locked of a lock
\* file without n has completed, and a later dependency_with_name(n) has
\* returned the error.
C19_Witness ==
    /\ loads # <<>>
    /\ obs # <<>>
    /\ obs[1] = "dependency_with_name"
    /\ ~obs[3].ok
    /\ \E i \in 1..Len(hist) :
          /\ hist[i].op = "load_dependency"
          /\ hist[i].ids # <<>>
          /\ hist[i].entries[1].name = obs[2]
          /\ hist[i].c < obs[4]
          /\ list[hist[i].ids[1] + 1].name = obs[2]

---------------------------------------------------------------------------
(* SpecLocks: the six calls of the session and dependency_versions of a    *)
(* git dependency up to the end of its acquisition, made by several tasks, *)
(* a step per stretch between two lock operations or two operations on the *)
(* file system or the repository.                                          *)

\* The number of calls made in one run of SpecLocks.
MaxLockCalls == 2

\* dependency_versions up to git_database: self.sess.dependency(dep_id)
\* locks the table for the read; a Git source goes on to git_database.
GD_Call(t, r) ==
    /\ ~aborted
    /\ pc[t] = "idle"
    /\ ncalls < MaxCalls
    /\ LockFree("deps")
    /\ IsSome(Dependency(r))
    /\ Unwrap(Dependency(r)).source.kind = "Git"
    /\ LET dep == Unwrap(Dependency(r))
       IN  loc' = [loc EXCEPT ![t] = [buf |-> DbDir(dep.name, dep.source.arg[1]),
                                      found |-> None]]
    /\ pc' = [pc EXCEPT ![t] = "gd_intern"]
    /\ ncalls' = ncalls + 1
    /\ UNCHANGED <<sessVars, owner, aborted, obs, histVars, ioVars, envVars>>

\* intern_path(db_dir) up to paths.get(&buf)
GD_Lock(t) ==
    /\ ~aborted
    /\ pc[t] = "gd_intern"
    /\ LockFree("paths")
    /\ owner' = [owner EXCEPT !["paths"] = t]
    /\ loc' = [loc EXCEPT ![t].found = PathsGet(loc[t].buf)]
    /\ pc' = [pc EXCEPT ![t] = "gd_ip"]
    /\ UNCHANGED <<sessVars, aborted, ncalls, obs, histVars, ioVars, envVars>>

\* The rest of intern_path(db_dir): the guard is dropped at its return.
GD_Interned(t) ==
    /\ ~aborted
    /\ pc[t] = "gd_ip"
    /\ IF IsSome(loc[t].found)
       THEN /\ interns' = interns \cup {<<loc[t].buf, Unwrap(loc[t].found)>>}
            /\ UNCHANGED <<arena, paths>>
       ELSE /\ arena' = Append(arena, loc[t].buf)
            /\ paths' = paths \cup {Len(arena) + 1}
            /\ interns' = interns \cup {<<loc[t].buf, Len(arena) + 1>>}
    /\ owner' = [owner EXCEPT !["paths"] = NoTask]
    /\ pc' = [pc EXCEPT ![t] = "gd_mkdir"]
    /\ UNCHANGED <<list, ids, names, loc, aborted, ncalls, obs, addlog, first, hist, loads,
                   ioVars, envVars>>

\* std::fs::create_dir_all(db_dir): on a failure the ready error is
\* returned, else the future of the init or the fetch.
GD_CreateDir(t, mkdirOk) ==
    /\ ~aborted
    /\ pc[t] = "gd_mkdir"
    /\ IF ~mkdirOk /\ ~disk[loc[t].buf].exists
       THEN /\ pc' = [pc EXCEPT ![t] = "idle"]
            /\ loc' = [loc EXCEPT ![t] = <<>>]
            /\ UNCHANGED disk
       ELSE /\ disk' = [disk EXCEPT ![loc[t].buf].exists = TRUE]
            /\ pc' = [pc EXCEPT ![t] = "gd_git"]
            /\ UNCHANGED loc
    /\ UNCHANGED <<sessVars, owner, aborted, ncalls, obs, histVars, fut, envVars>>

\* The subprocesses of the acquisition come to their end (SpecIo has their
\* steps): the future resolves.
GD_Resolve(t) ==
    /\ ~aborted
    /\ pc[t] = "gd_git"
    /\ pc' = [pc EXCEPT ![t] = "idle"]
    /\ loc' = [loc EXCEPT ![t] = <<>>]
    /\ UNCHANGED <<sessVars, owner, aborted, ncalls, obs, histVars, ioVars, envVars>>

\* A step that goes on with a call that task t has started, the iterations
\* of load_locked apart.
Continue(t) ==
    \/ LD_Add(t)
    \/ LL_Drop(t)
    \/ LL_LockNames(t)
    \/ LL_Assign(t)
    \/ IP_Finish(t)
    \/ GD_Lock(t)
    \/ GD_Interned(t)
    \/ \E mkdirOk \in BOOLEAN : GD_CreateDir(t, mkdirOk)
    \/ GD_Resolve(t)

\* A step that starts a call.
Start(t) ==
    \/ \E in \in LoadInputs : LD_Lock(t, in[1], in[2])
    \/ \E locked \in LockFiles : LL_Lock(t, locked)
    \/ \E r \in KnownRefs : DependencyCall(t, r)
    \/ \E r \in KnownRefs : DependencySourceCall(t, r)
    \/ \E n \in DepNames : DependencyWithNameCall(t, n)
    \/ \E buf \in PathBufs : IP_Lock(t, buf)
    \/ \E r \in KnownRefs : GD_Call(t, r)

NextLocks ==
    \E t \in Tasks :
        \/ ncalls < MaxLockCalls /\ Start(t)
        \/ LL_Iter(t)
        \/ Continue(t)

\* LL_Iter(t) can take a step: the loop of t has a package left.
CanIter(t) == ~aborted /\ pc[t] = "ll_loop" /\ loc[t].todo # {}

\* How far the loop of load_locked of task t has come.
IterProgress(t) == <<pc[t], IF pc[t] = "ll_loop" THEN Cardinality(loc[t].todo) ELSE 0>>

\* A task that has started a call is scheduled again, the threads run: weak
\* fairness of the steps that go on with a call (each changes pc), for
\* LL_Iter with its enabling condition written out.
Fairness ==
    \A t \in Tasks :
        /\ WF_pc(Continue(t))
        /\ []<>(~CanIter(t)) \/ []<><<LL_Iter(t)>>_(IterProgress(t))

SpecLocks == Init /\ [][NextLocks]_vars /\ Fairness

---------------------------------------------------------------------------
\* Task t is inside a call of the session: between the lock and the return
\* of load_dependency, load_locked or intern_path (on its own or within
\* git_database).  The reads lock, look up and return in one step.
InSessionCall(t) ==
    pc[t] \in {"ld_add", "ll_loop", "ll_dropped", "ll_names", "ip_add", "gd_intern", "gd_ip"}

\* No task holds two of the three locks.
C20_OneLock == \A t \in Tasks : Cardinality({l \in Locks : owner[l] = t}) <= 1

\* A task whose create_dir_all or whose acquisition is pending holds none.
C20_NoLockAcrossIo ==
    \A t \in Tasks : pc[t] \in {"gd_mkdir", "gd_git"} => \A l \in Locks : owner[l] # t

\* A task that waits for a lock (of the name table in load_locked, of the
\* path set in git_database) holds none.
C20_NoHoldAndWait ==
    \A t \in Tasks : pc[t] \in {"ll_dropped", "gd_intern"} => \A l \in Locks : owner[l] # t

(* C20: no task ever holds two of the locks of the dependency table, the   *)
(* name table and the path set; none is held while create_dir_all or a     *)
(* subprocess of the acquisition is pending; the calls of the session      *)
(* never block each other for good, and each call that a task has started  *)
(* returns (or a panic ends the run).                                      *)
C20_LockDiscipline ==
    /\ [](C20_OneLock /\ C20_NoLockAcrossIo /\ C20_NoHoldAndWait)
    /\ \A t \in Tasks : InSessionCall(t) ~> (~InSessionCall(t) \/ aborted)

\* One load_locked holds the name table while another waits for it.
C20_Witness ==
    \E t, u \in Tasks : pc[t] = "ll_names" /\ owner["names"] = t /\ pc[u] = "ll_dropped"

---------------------------------------------------------------------------
\* Each reference of the name table is an index of the dependency table, and
\* the descriptor at that index has the name the reference is stored under.
NamesValid ==
    \A n \in DOMAIN names :
        /\ names[n] \in 0..(Len(list) - 1)
        /\ list[names[n] + 1].name = n

(* C21: in every reachable state, in every interleaving of load_locked and *)
(* load_dependency calls of several tasks, each reference stored in the    *)
(* name table is a valid index of the dependency table and the descriptor  *)
(* at that index has the name under which the reference is stored; so      *)
(* dependency(r) returns a descriptor, and one of that name, for every     *)
(* reference r that dependency_with_name returns or has returned.          *)
C21_NameTableValid ==
    /\ NamesValid
    /\ \A n \in DepNames :
          DependencyWithName(n).ok =>
              /\ IsSome(Dependency(Unwrap(DependencyWithName(n).val)))
              /\ Unwrap(Dependency(Unwrap(DependencyWithName(n).val))).name = n
    /\ (obs # <<>> /\ obs[1] = "dependency_with_name") =>
          (obs[3].ok =>
              /\ IsSome(Dependency(Unwrap(obs[3].val)))
              /\ Unwrap(Dependency(Unwrap(obs[3].val))).name = obs[2])

\* A name has been resolved from the table of a completed load_locked while
\* another task is in the middle of a load_locked or a load_dependency that
\* has grown the dependency table past the entries the name table refers to.
C21_Witness ==
    /\ names # <<>>
    /\ obs # <<>>
    /\ obs[1] = "dependency_with_name"
    /\ obs[3].ok
    /\ \E t \in Tasks : pc[t] \in {"ll_loop", "ll_dropped", "ld_add"}
    /\ \E i \in 1..Len(list) : \A n \in DOMAIN names : names[n] # i - 1

===========================================================================
